---- MODULE Spec2Model ----
(***************************************************************************)
(* Relay hub of src/index.js: one process holding the state of three       *)
(* device classes (shutters, irrigation, robots) and relaying between      *)
(* device WebSocket connections (/esp32, /esp32-irrigation) and controller *)
(* connections (/app).  Node's event loop runs one handler at a time, so   *)
(* every handler is one atomic action.                                     *)
(*                                                                         *)
(* Transport (package ws): a socket is OPEN after the upgrade; ws.close()  *)
(* starts the closing handshake (CLOSING) and the 'close' event fires      *)
(* later (CLOSED, socket leaves wss.clients).  Frames the peer had in      *)
(* flight are still delivered as 'message' events while CLOSING; send() on *)
(* a socket that is not OPEN transmits nothing and does not throw.         *)
(***************************************************************************)
EXTENDS Integers, Sequences, FiniteSets, TLC

\* ---------------------------------------------------------------- bounds
MaxConn == 2     \* connections accepted during a run
MaxFanout == 3   \* the same, in the specification where a send may throw
MaxTimers == 2   \* interval timer handles the runtime hands out during a run

\* ------------------------------------------------------------- constants
NULL == 0                                   \* null (no registered socket)
NO_STAMP == "null"                          \* lastUpdate: null
ESP32_SECRET == "your-esp32-secret-key"
ESP32_IRRIGATION_SECRET == "my-super-secret-irrigation-key-54321"
APP_SECRET == "your-app-secret-key"
WRONG_SECRET == "wrong"                     \* any other token
NO_TOKEN == "undefined"                     \* message.token of a message without one

Paths == {"/esp32", "/esp32-irrigation", "/app", "/other"}
DevicePaths == {"/esp32", "/esp32-irrigation"}
RobotIds == {"roomba_j7", "braava_jet"}

VARIABLES
    conns,                  \* per connection: path, readyState, authenticated
    esp32Socket,            \* registered shutters/bridge device, or NULL
    esp32IrrigationSocket,  \* registered irrigation device, or NULL
    shuttersState,
    irrigationState,
    robotsState,
    sent,                   \* messages the last handler run sent, in order
    ev,                     \* the event the last handler run processed
    lastAuth,               \* history: last connection authenticated per path
    firstMsg,               \* history: what a live device socket's first frame was
    irrigationLog,          \* rows DatabaseService.logIrrigation has inserted
    roomba                  \* the RoombaController: pollingInterval, robots; and
                            \* timers, the interval timers the runtime holds active

\* the connection slots of a run
ConnIds == DOMAIN conns

vars == <<conns, esp32Socket, esp32IrrigationSocket, shuttersState,
          irrigationState, robotsState, sent, ev, lastAuth, firstMsg,
          irrigationLog, roomba>>

\* ------------------------------------------------------------ transport
NoConn == [path |-> "", readyState |-> "NONE", authenticated |-> FALSE]

\* wss.clients: sockets whose 'close' event has not fired yet
Clients == {c \in ConnIds : conns[c].readyState \in {"OPEN", "CLOSING"}}

\* client.readyState === 1
IsOpen(c) == conns[c].readyState = "OPEN"

\* ws.send(JSON.stringify(m)): transmitted only on an OPEN socket
Send(c, m) == IF IsOpen(c) THEN <<[to |-> c, msg |-> m]>> ELSE <<>>

\* ws.close(): OPEN -> CLOSING, otherwise no effect
CloseSocket(cs, c) ==
    IF cs[c].readyState = "OPEN"
    THEN [cs EXCEPT ![c].readyState = "CLOSING"]
    ELSE cs

\* 'close' event: the socket is CLOSED and leaves wss.clients; no handler of
\* it runs again, so its path and its closure variable are dropped with it
Closed(cs, c) ==
    [cs EXCEPT ![c] = [path |-> "", readyState |-> "CLOSED", authenticated |-> FALSE]]

\* ---------------------------------------------------------------- state
\* a robot entry (an object) and a scalar property of robotsState
RobotEntry(battery, connected) ==
    [isObject |-> TRUE, battery |-> battery, connected |-> connected,
     value |-> NO_STAMP]
Scalar(v) ==
    [isObject |-> FALSE, battery |-> 0, connected |-> FALSE, value |-> v]

InitShutters == [s1 |-> 0, lastUpdate |-> NO_STAMP]
InitIrrigation == [active |-> FALSE, lastUpdate |-> NO_STAMP]
InitRobots == [r \in RobotIds |-> RobotEntry(0, FALSE)]

\* new Date().toISOString(): some ISO string; no code branches on its value
Timestamp == "ISO"

\* { ...message.data, lastUpdate: <stamp> }: the data's own keys, then lastUpdate
Spread(data, stamp) ==
    [k \in (DOMAIN data) \cup {"lastUpdate"} |->
        IF k = "lastUpdate" THEN stamp ELSE data[k]]

ReplaceShutters(data) == Spread(data, Timestamp)
ReplaceIrrigation(data) == Spread(data, Timestamp)
ReplaceRobots(data) == Spread(data, Scalar(Timestamp))

\* mutant: marks one hard-coded robot instead of every entry
MarkOneRobotDisconnected(rs) ==
    [k \in DOMAIN rs |->
        IF k = "roomba_j7" THEN [rs[k] EXCEPT !.connected = FALSE] ELSE rs[k]]

\* for (robotId of Object.keys(robotsState)) if object: .connected = false
MarkRobotsDisconnected(rs) ==
    [k \in DOMAIN rs |->
        IF rs[k].isObject THEN [rs[k] EXCEPT !.connected = FALSE] ELSE rs[k]]

\* GET /health: esp32Socket !== null && esp32Socket.readyState === 1
esp32Connected == esp32Socket # NULL /\ IsOpen(esp32Socket)
\* mutant: a registered irrigation socket counts as connected whatever its state
irrigationRegistered == esp32IrrigationSocket # NULL

\* the same test on the irrigation socket (IRRIGATION_COMMAND)
irrigationConnected == esp32IrrigationSocket # NULL /\ IsOpen(esp32IrrigationSocket)

\* ------------------------------------------------------------- messages
\* a received frame: one JSON.parse accepts, or one it throws on
Malformed == [ok |-> FALSE]
Frame(m) == [ok |-> TRUE, msg |-> m]

Secrets == {ESP32_SECRET, ESP32_IRRIGATION_SECRET}
Tokens == {APP_SECRET, WRONG_SECRET, NO_TOKEN}

ShutterData == {[s1 |-> 50]}                \* a position other than the initial one
IrrigationData == {[active |-> TRUE]}       \* telemetry of a running cycle
RobotData ==
    { [roomba_j7 |-> RobotEntry(80, TRUE), braava_jet |-> RobotEntry(40, TRUE)] }

AuthMsgs == {[type |-> "AUTH", secret |-> s] : s \in Secrets}
StateMsgs == {[type |-> "STATE", data |-> d] : d \in ShutterData}
RobotStateMsgs == {[type |-> "ROBOT_STATE", data |-> d] : d \in RobotData}
IrrigationStateMsgs == {[type |-> "IRRIGATION_STATE", data |-> d] : d \in IrrigationData}
RobotResponse == [type |-> "ROBOT_RESPONSE", success |-> TRUE]
IrrigationComplete == [type |-> "IRRIGATION_COMMAND_COMPLETE"]
Ack == [type |-> "ACK"]
Hello == [type |-> "HELLO"]                 \* a type no handler knows

CommandMsgs == {[type |-> "COMMAND", token |-> t, action |-> "OPEN"] : t \in Tokens}
IrrigationCommandMsgs ==
    {[type |-> "IRRIGATION_COMMAND", token |-> t, action |-> "START"] : t \in Tokens}
RobotCommandMsgs ==
    {[type |-> "ROBOT_COMMAND", token |-> t, robotId |-> "roomba_j7", command |-> "start"]
        : t \in Tokens}

AuthOk == [type |-> "AUTH_OK"]
RequestState == [type |-> "REQUEST_STATE"]
AuthFailed == [type |-> "AUTH_FAILED"]

\* ------------------------------------------------------------ broadcast
\* mutant: the readyState test inverted
broadcastToNotOpen(message, cs, socket) ==
    LET order == [i \in 1..Len(cs) |-> i]
        targets == SelectSeq(order,
                       LAMBDA c : cs[c].readyState = "CLOSING" /\ c # socket)
    IN [i \in 1..Len(targets) |-> [to |-> targets[i], msg |-> message]]

\* wss.clients.forEach(client => { if (client.readyState === 1 &&
\*     client !== esp32Socket) client.send(JSON.stringify(message)) })
\* in the insertion order of wss.clients; cs and socket are the values of
\* the connection table and of esp32Socket at the time of the call
broadcastToApps(message, cs, socket) ==
    LET order == [i \in 1..Len(cs) |-> i]
        targets == SelectSeq(order,
                       LAMBDA c : cs[c].readyState = "OPEN" /\ c # socket)
    IN [i \in 1..Len(targets) |-> [to |-> targets[i], msg |-> message]]

\* ----------------------------------------------------- RoombaController
\* constructor(config): pollingInterval = null, and one entry of this.robots
\* per robot whose credentials are configured (_initRobot)
Constructed(config) ==
    [pollingInterval |-> NULL,
     timers |-> {},
     robots |-> [r \in config |-> [connected |-> FALSE, lastState |-> NULL]]]

\* the hub's variables, which no method of the controller touches
hubVars == <<conns, esp32Socket, esp32IrrigationSocket, shuttersState,
             irrigationState, robotsState, lastAuth, firstMsg, irrigationLog>>

TimerIds == 1..MaxTimers
Batteries == {80}                           \* state.batPct of a 'state' event

\* getStatus(robotId), with the fields the hub's robot entries have
getStatus(robot) ==
    IF ~robot.connected \/ robot.lastState = NULL
    THEN [connected |-> robot.connected, battery |-> 0]
    ELSE [connected |-> TRUE, battery |-> robot.lastState]

\* getAllStatus(): synchronous, from the cached states
getAllStatus(robots) == [r \in DOMAIN robots |-> getStatus(robots[r])]

\* this.emit('statusUpdate', statuses): the listeners run synchronously; no
\* module of the repository registers one, so the call has no effect
EmitStatusUpdate(statuses) ==
    /\ sent' = <<>>
    /\ UNCHANGED hubVars

\* mutant: the previous interval timer is left running
KeepPrevious(timers, handle) == timers

\* clearInterval(handle)
clearInterval(timers, handle) == timers \ {handle}

\* startPolling(intervalMs)
startPolling ==
    \E h \in TimerIds \ (roomba.timers \cup {roomba.pollingInterval}) :
        /\ roomba' = [roomba EXCEPT
                !.timers = (IF roomba.pollingInterval # NULL
                            THEN clearInterval(roomba.timers, roomba.pollingInterval)
                            ELSE roomba.timers) \cup {h},
                !.pollingInterval = h]
        /\ ev' = [op |-> "roomba", conn |-> NULL, call |-> "startPolling",
                  restarted |-> (roomba.pollingInterval # NULL),
                  statuses |-> getAllStatus(roomba.robots)]
        /\ EmitStatusUpdate(getAllStatus(roomba.robots))

\* the callback of an active interval timer
Tick(t) ==
    /\ t \in roomba.timers
    /\ ev' = [op |-> "roomba", conn |-> NULL, call |-> "tick", timer |-> t,
              statuses |-> getAllStatus(roomba.robots)]
    /\ EmitStatusUpdate(getAllStatus(roomba.robots))
    /\ UNCHANGED roomba

\* stopPolling()
StopPolled(r) ==
    IF r.pollingInterval # NULL
    THEN [r EXCEPT !.timers = clearInterval(r.timers, r.pollingInterval),
                   !.pollingInterval = NULL]
    ELSE r

stopPolling ==
    /\ roomba' = StopPolled(roomba)
    /\ ev' = [op |-> "roomba", conn |-> NULL, call |-> "stopPolling"]
    /\ sent' = <<>>
    /\ UNCHANGED hubVars

\* disconnect(): stopPolling(), then every robot is marked disconnected
disconnect ==
    /\ roomba' = [StopPolled(roomba) EXCEPT
            !.robots = [r \in DOMAIN roomba.robots |->
                           [roomba.robots[r] EXCEPT !.connected = FALSE]]]
    /\ ev' = [op |-> "roomba", conn |-> NULL, call |-> "disconnect"]
    /\ sent' = <<>>
    /\ UNCHANGED hubVars

\* the listeners _initRobot attaches to a robot's MQTT client
ClientEvents == {"connect", "error", "close", "offline", "state"}

ClientEvent(r, e, battery) ==
    /\ r \in DOMAIN roomba.robots
    /\ roomba' = [roomba EXCEPT !.robots[r] =
            CASE e = "connect" -> [@ EXCEPT !.connected = TRUE]
              [] e = "state"   -> [connected |-> TRUE, lastState |-> battery]
              [] OTHER         -> [@ EXCEPT !.connected = FALSE]]
    /\ ev' = [op |-> "roomba", conn |-> NULL, call |-> e, robot |-> r]
    /\ sent' = <<>>
    /\ UNCHANGED hubVars

\* ----------------------------------------------------------------- Init
HubInit(n) ==
    /\ conns = [c \in 1..n |-> NoConn]
    /\ esp32Socket = NULL
    /\ esp32IrrigationSocket = NULL
    /\ shuttersState = InitShutters
    /\ irrigationState = InitIrrigation
    /\ robotsState = InitRobots
    /\ sent = <<>>
    /\ ev = [op |-> "start", conn |-> NULL]
    /\ lastAuth = [p \in DevicePaths |-> NULL]
    /\ firstMsg = [c \in 1..n |-> "none"]
    /\ irrigationLog = <<>>

InitWith(n) ==
    /\ HubInit(n)
    /\ roomba = Constructed({})   \* index.js constructs no controller

Init == InitWith(MaxConn)

\* mutant: the snapshot is the state the process started with
InitialSnapshot(c) ==
    <<[to |-> c, msg |-> [type |-> "STATE_UPDATE", data |-> InitShutters]]>>

\* handleAppConnection: ws.send({ type: 'STATE_UPDATE', data: shuttersState })
CurrentSnapshot(c) ==
    <<[to |-> c, msg |-> [type |-> "STATE_UPDATE", data |-> shuttersState]]>>

\* wss.on('connection', (ws, request) => ...): the new socket joins
\* wss.clients and is handed to the handler of its path
Connection(path) ==
    /\ \E c \in ConnIds :
        /\ conns[c].readyState = "NONE"
        /\ \A d \in ConnIds : d < c => conns[d].readyState # "NONE"
        /\ LET opened == [conns EXCEPT ![c] =
                            [path |-> path, readyState |-> "OPEN",
                             authenticated |-> FALSE]]
           IN /\ conns' = IF path = "/other" THEN CloseSocket(opened, c) ELSE opened
              /\ sent' = IF path = "/app" THEN CurrentSnapshot(c) ELSE <<>>
              /\ ev' = [op |-> "connection", conn |-> c, path |-> path]
    /\ UNCHANGED <<esp32Socket, esp32IrrigationSocket, shuttersState,
                   irrigationState, robotsState, lastAuth, firstMsg,
                   irrigationLog, roomba>>

\* ------------------------------------------------------ device handlers
\* message.type === 'AUTH' && message.secret === <the path's secret>
ValidAuth(m, secret) == m.type = "AUTH" /\ m.secret = secret

\* mutant: registers only while no device is registered (first one wins)
RegisterIfFree(current, ws) == IF current = NULL THEN ws ELSE current

\* esp32Socket = ws  /  esp32IrrigationSocket = ws
Register(current, ws) == ws

\* mutant: the close handler leaves the registration alone
UnregisterNever(current, ws) == current

\* mutant: clears the registration without comparing identities
UnregisterAlways(current, ws) == NULL

\* if (esp32Socket === ws) esp32Socket = null
Unregister(current, ws) == IF current = ws THEN NULL ELSE current

\* history: whether the first frame a device socket delivered was a valid AUTH
FirstFrame(c, data, secret) ==
    IF firstMsg[c] # "none" THEN firstMsg
    ELSE [firstMsg EXCEPT ![c] =
            IF data.ok /\ ValidAuth(data.msg, secret) THEN "auth" ELSE "other"]

\* mutant: the state request goes out before the acknowledgment
RequestThenAck(c) == Send(c, RequestState) \o Send(c, AuthOk)

\* ws.send(AUTH_OK); ws.send(REQUEST_STATE)
AuthReplies(c) == Send(c, AuthOk) \o Send(c, RequestState)

\* mutant: a connection that lost the registration may authenticate again
NeedsAuthOrSuperseded(c) ==
    ~conns[c].authenticated \/ c \notin {esp32Socket, esp32IrrigationSocket}

\* if (!authenticated): the closure variable of the connection
NeedsAuth(c) == ~conns[c].authenticated

\* the branch of an unauthenticated device socket (both device handlers)
FirstMessage(c, m, secret) ==
    IF ValidAuth(m, secret)
    THEN /\ conns' = [conns EXCEPT ![c].authenticated = TRUE]
         /\ sent' = AuthReplies(c)
         /\ lastAuth' = [lastAuth EXCEPT ![conns[c].path] = c]
    ELSE /\ conns' = CloseSocket(conns, c)
         /\ sent' = Send(c, AuthFailed)
         /\ UNCHANGED lastAuth

\* mutant: the broadcast carries the state held before the replacement
ESP32BroadcastStale(m) ==
    CASE m.type = "STATE" ->
           broadcastToApps([type |-> "STATE_UPDATE", data |-> shuttersState],
                           conns, esp32Socket)
      [] m.type = "ROBOT_STATE" ->
           broadcastToApps([type |-> "ROBOT_STATE_UPDATE", data |-> robotsState],
                           conns, esp32Socket)
      [] m.type = "ROBOT_RESPONSE" ->
           broadcastToApps(m, conns, esp32Socket)
      [] OTHER -> <<>>

\* the broadcast of an authenticated /esp32 message, made after its state
\* replacement
ESP32Broadcast(m) ==
    CASE m.type = "STATE" ->
           broadcastToApps([type |-> "STATE_UPDATE", data |-> shuttersState'],
                           conns, esp32Socket)
      [] m.type = "ROBOT_STATE" ->
           broadcastToApps([type |-> "ROBOT_STATE_UPDATE", data |-> robotsState'],
                           conns, esp32Socket)
      [] m.type = "ROBOT_RESPONSE" ->
           broadcastToApps(m, conns, esp32Socket)
      [] OTHER -> <<>>

\* handleESP32Connection: ws.on('message', ...)
ESP32Message(c, data) ==
    /\ c \in Clients
    /\ conns[c].path = "/esp32"
    /\ ev' = [op |-> "message", conn |-> c, path |-> conns[c].path, data |-> data,
              first |-> (firstMsg[c] = "none")]
    /\ firstMsg' = FirstFrame(c, data, ESP32_SECRET)
    /\ UNCHANGED <<esp32IrrigationSocket, irrigationState,
                   irrigationLog, roomba>>
    /\ IF ~data.ok
       THEN \* JSON.parse throws: caught and logged
            /\ sent' = <<>>
            /\ UNCHANGED <<conns, esp32Socket, shuttersState, robotsState, lastAuth>>
       ELSE LET m == data.msg IN
            IF NeedsAuth(c)
            THEN /\ FirstMessage(c, m, ESP32_SECRET)
                 /\ esp32Socket' = IF ValidAuth(m, ESP32_SECRET)
                                   THEN Register(esp32Socket, c)
                                   ELSE esp32Socket
                 /\ UNCHANGED <<shuttersState, robotsState>>
            ELSE /\ UNCHANGED <<conns, esp32Socket, lastAuth>>
                 /\ shuttersState' = IF m.type = "STATE"
                                     THEN ReplaceShutters(m.data)
                                     ELSE shuttersState
                 /\ robotsState' = IF m.type = "ROBOT_STATE"
                                   THEN ReplaceRobots(m.data)
                                   ELSE robotsState
                 /\ sent' = ESP32Broadcast(m)

\* The same handler when client.send throws for controller bad inside
\* broadcastToApps: forEach has no try/catch, so the exception leaves the
\* loop with the clients before bad served and the rest skipped, and is
\* caught and logged by the handler's catch; the state is already replaced.
ESP32MessageSendThrows(c, data, bad) ==
    /\ c \in Clients
    /\ conns[c].path = "/esp32"
    /\ conns[c].authenticated
    /\ data.ok
    /\ data.msg.type \in {"STATE", "ROBOT_STATE", "ROBOT_RESPONSE"}
    /\ bad \in Clients
    /\ conns[bad].path = "/app"
    /\ IsOpen(bad)
    /\ ev' = [op |-> "message", conn |-> c, path |-> conns[c].path, data |-> data,
              first |-> FALSE, threw |-> bad]
    /\ shuttersState' = IF data.msg.type = "STATE"
                        THEN ReplaceShutters(data.msg.data)
                        ELSE shuttersState
    /\ robotsState' = IF data.msg.type = "ROBOT_STATE"
                      THEN ReplaceRobots(data.msg.data)
                      ELSE robotsState
    /\ sent' = SelectSeq(ESP32Broadcast(data.msg), LAMBDA s : s.to < bad)
    /\ UNCHANGED <<conns, esp32Socket, esp32IrrigationSocket, irrigationState,
                   lastAuth, firstMsg, irrigationLog, roomba>>

\* handleESP32Connection: ws.on('close', ...)
ESP32Close(c) ==
    /\ c \in Clients
    /\ conns[c].path = "/esp32"
    /\ ev' = [op |-> "close", conn |-> c, path |-> conns[c].path,
              wasAuthenticated |-> conns[c].authenticated,
              wasRegistered |-> (esp32Socket = c)]
    /\ firstMsg' = [firstMsg EXCEPT ![c] = "none"]
    /\ conns' = Closed(conns, c)
    /\ esp32Socket' = Unregister(esp32Socket, c)
    /\ IF esp32Socket = c
       THEN /\ robotsState' = MarkRobotsDisconnected(robotsState)
            /\ sent' = broadcastToApps([type |-> "ROBOT_STATE_UPDATE",
                                        data |-> robotsState'],
                                       conns', esp32Socket')
       ELSE /\ sent' = <<>>
            /\ UNCHANGED robotsState
    /\ UNCHANGED <<esp32IrrigationSocket, shuttersState, irrigationState, lastAuth,
                   irrigationLog, roomba>>

\* mutant: the completion message is forwarded under another type
IrrigationBroadcastRetyped(m) ==
    CASE m.type = "IRRIGATION_STATE" ->
           broadcastToApps([type |-> "IRRIGATION_STATE", data |-> irrigationState'],
                           conns, esp32Socket)
      [] m.type = "IRRIGATION_COMMAND_COMPLETE" ->
           broadcastToApps([type |-> "IRRIGATION_RESPONSE"], conns, esp32Socket)
      [] OTHER -> <<>>

\* the broadcast of an authenticated /esp32-irrigation message
IrrigationBroadcast(m) ==
    CASE m.type = "IRRIGATION_STATE" ->
           broadcastToApps([type |-> "IRRIGATION_STATE", data |-> irrigationState'],
                           conns, esp32Socket)
      [] m.type = "IRRIGATION_COMMAND_COMPLETE" ->
           broadcastToApps(m, conns, esp32Socket)
      [] OTHER -> <<>>

\* handleESP32IrrigationConnection: ws.on('message', ...)
IrrigationMessage(c, data) ==
    /\ c \in Clients
    /\ conns[c].path = "/esp32-irrigation"
    /\ ev' = [op |-> "message", conn |-> c, path |-> conns[c].path, data |-> data,
              first |-> (firstMsg[c] = "none")]
    /\ firstMsg' = FirstFrame(c, data, ESP32_IRRIGATION_SECRET)
    /\ UNCHANGED <<esp32Socket, shuttersState, robotsState,
                   irrigationLog, roomba>>
    /\ IF ~data.ok
       THEN /\ sent' = <<>>
            /\ UNCHANGED <<conns, esp32IrrigationSocket, irrigationState, lastAuth>>
       ELSE LET m == data.msg IN
            IF NeedsAuth(c)
            THEN /\ FirstMessage(c, m, ESP32_IRRIGATION_SECRET)
                 /\ esp32IrrigationSocket' =
                        IF ValidAuth(m, ESP32_IRRIGATION_SECRET)
                        THEN Register(esp32IrrigationSocket, c)
                        ELSE esp32IrrigationSocket
                 /\ UNCHANGED irrigationState
            ELSE /\ UNCHANGED <<conns, esp32IrrigationSocket, lastAuth>>
                 /\ irrigationState' = IF m.type = "IRRIGATION_STATE"
                                       THEN ReplaceIrrigation(m.data)
                                       ELSE irrigationState
                 /\ sent' = IrrigationBroadcast(m)

\* mutant: the irrigation close handler degrades the robots as the bridge's does
IrrigationCloseMarksRobots(c) ==
    /\ robotsState' = IF esp32IrrigationSocket = c
                      THEN MarkRobotsDisconnected(robotsState)
                      ELSE robotsState
    /\ UNCHANGED <<esp32Socket, shuttersState, irrigationState,
                   lastAuth, irrigationLog, roomba>>

\* what the irrigation close handler leaves alone
IrrigationCloseLeaves(c) ==
    UNCHANGED <<esp32Socket, shuttersState, irrigationState, robotsState,
                lastAuth, irrigationLog, roomba>>

\* handleESP32IrrigationConnection: ws.on('close', ...)
IrrigationClose(c) ==
    /\ c \in Clients
    /\ conns[c].path = "/esp32-irrigation"
    /\ ev' = [op |-> "close", conn |-> c, path |-> conns[c].path,
              wasAuthenticated |-> conns[c].authenticated,
              wasRegistered |-> (esp32IrrigationSocket = c)]
    /\ firstMsg' = [firstMsg EXCEPT ![c] = "none"]
    /\ conns' = Closed(conns, c)
    /\ esp32IrrigationSocket' = Unregister(esp32IrrigationSocket, c)
    /\ sent' = <<>>
    /\ IrrigationCloseLeaves(c)

\* --------------------------------------------------- controller handler
CommandTypes == {"COMMAND", "IRRIGATION_COMMAND", "ROBOT_COMMAND"}

\* mutant: any token that is present passes
TokenPresent(m) == m.token # NO_TOKEN

\* message.token === APP_SECRET
TokenOk(m) == m.token = APP_SECRET

\* a parsed frame of one of the three command types
IsCommand(data) == data.ok /\ data.msg.type \in CommandTypes
\* ... that also passes the token test
ValidCommand(data) == IsCommand(data) /\ TokenOk(data.msg)

\* mutant: a shutters command without a device is answered with an error
ForwardCommandOrReport(c, m) ==
    IF esp32Connected
    THEN Send(esp32Socket, [type |-> "COMMAND", action |-> m.action])
    ELSE Send(c, [type |-> "COMMAND_RESPONSE", success |-> FALSE,
                  error |-> "ESP32 not connected"])

\* the COMMAND branch: forwarded without the token, or dropped silently
ForwardCommand(c, m) ==
    IF esp32Connected
    THEN Send(esp32Socket, [type |-> "COMMAND", action |-> m.action])
    ELSE <<>>

\* the IRRIGATION_COMMAND branch: the message is forwarded as received
ForwardIrrigation(c, m) ==
    IF irrigationConnected
    THEN Send(esp32IrrigationSocket, m)
         \o Send(c, [type |-> "IRRIGATION_RESPONSE", success |-> TRUE])
    ELSE Send(c, [type |-> "IRRIGATION_RESPONSE", success |-> FALSE,
                  error |-> "Irrigation ESP32 not connected"])

\* mutant: the controller is told of success whether or not a bridge is there
ForwardRobotAlwaysOk(c, m) ==
    (IF esp32Connected
     THEN Send(esp32Socket, [type |-> "ROBOT_FORWARD_COMMAND",
                             robotId |-> m.robotId,
                             command |-> m.command])
     ELSE <<>>)
    \o Send(c, [type |-> "ROBOT_RESPONSE", success |-> TRUE])

\* the ROBOT_COMMAND branch
ForwardRobot(c, m) ==
    IF esp32Connected
    THEN Send(esp32Socket, [type |-> "ROBOT_FORWARD_COMMAND",
                            robotId |-> m.robotId,
                            command |-> m.command])
         \o Send(c, [type |-> "ROBOT_RESPONSE", success |-> TRUE])
    ELSE Send(c, [type |-> "ROBOT_RESPONSE", success |-> FALSE,
                  error |-> "ESP32 Roomba bridge not connected"])

\* mutant: a valid COMMAND is applied to the held shutters state at once
AppEffectOptimistic(data) ==
    /\ shuttersState' = IF ValidCommand(data) /\ data.msg.type = "COMMAND"
                        THEN ReplaceShutters([s1 |-> 50])
                        ELSE shuttersState
    /\ UNCHANGED <<conns, esp32Socket, esp32IrrigationSocket,
                   irrigationState, robotsState, lastAuth, firstMsg,
                   irrigationLog, roomba>>

\* what the controller message handler assigns: nothing
AppEffect(data) ==
    UNCHANGED <<conns, esp32Socket, esp32IrrigationSocket, shuttersState,
                irrigationState, robotsState, lastAuth, firstMsg,
                irrigationLog, roomba>>

\* handleAppConnection: ws.on('message', ...)
AppMessage(c, data) ==
    /\ c \in Clients
    /\ conns[c].path = "/app"
    /\ ev' = [op |-> "message", conn |-> c, path |-> conns[c].path, data |-> data,
              first |-> FALSE,
              afterValid |-> /\ IsCommand(data)
                             /\ ~TokenOk(data.msg)
                             /\ ev.op = "message"
                             /\ ev.conn = c
                             /\ ev.path = "/app"
                             /\ ValidCommand(ev.data)]
    /\ AppEffect(data)
    /\ IF ~data.ok
       THEN sent' = <<>>
       ELSE LET m == data.msg IN
            sent' =
              CASE m.type = "COMMAND" /\ TokenOk(m) -> ForwardCommand(c, m)
                [] m.type = "IRRIGATION_COMMAND" /\ TokenOk(m) -> ForwardIrrigation(c, m)
                [] m.type = "ROBOT_COMMAND" /\ TokenOk(m) -> ForwardRobot(c, m)
                [] OTHER -> <<>>

\* handleAppConnection: ws.on('close', ...)
AppClose(c) ==
    /\ c \in Clients
    /\ conns[c].path = "/app"
    /\ ev' = [op |-> "close", conn |-> c, path |-> conns[c].path,
              wasAuthenticated |-> FALSE, wasRegistered |-> FALSE]
    /\ conns' = Closed(conns, c)
    /\ sent' = <<>>
    /\ UNCHANGED <<esp32Socket, esp32IrrigationSocket, shuttersState,
                   irrigationState, robotsState, lastAuth, firstMsg,
                   irrigationLog, roomba>>

\* a socket of an unknown path: closed on arrival, no handler attached
OtherClose(c) ==
    /\ c \in Clients
    /\ conns[c].path = "/other"
    /\ ev' = [op |-> "close", conn |-> c, path |-> conns[c].path,
              wasAuthenticated |-> FALSE, wasRegistered |-> FALSE]
    /\ conns' = Closed(conns, c)
    /\ sent' = <<>>
    /\ UNCHANGED <<esp32Socket, esp32IrrigationSocket, shuttersState,
                   irrigationState, robotsState, lastAuth, firstMsg,
                   irrigationLog, roomba>>

\* ------------------------------------------------------------- HTTP API
\* property names every object literal inherits from Object.prototype
ObjectPrototypeKeys == {"constructor"}

\* JavaScript truthiness of one property of robotsState
Truthy(e) == e.isObject \/ e.value # ""

\* robotsState[robotId] is truthy: an own property wins, else the prototype's
HasRobot(rs, id) ==
    IF id \in DOMAIN rs THEN Truthy(rs[id]) ELSE id \in ObjectPrototypeKeys

\* mutant: the device is tested before the token
CommandStatusDeviceFirst(token) ==
    IF ~esp32Connected THEN 503
    ELSE IF token # APP_SECRET THEN 401
    ELSE 200

\* POST /api/command: the status of the response
CommandStatus(token) ==
    IF token # APP_SECRET THEN 401
    ELSE IF ~esp32Connected THEN 503
    ELSE 200

\* POST /api/command
PostCommand(token) ==
    /\ ev' = [op |-> "http", conn |-> NULL, route |-> "POST /api/command",
              token |-> token, status |-> CommandStatus(token)]
    /\ sent' = IF CommandStatus(token) = 200
               THEN Send(esp32Socket, [type |-> "COMMAND", action |-> "OPEN"])
               ELSE <<>>
    /\ UNCHANGED <<conns, esp32Socket, esp32IrrigationSocket, shuttersState,
                   irrigationState, robotsState, lastAuth, firstMsg,
                   irrigationLog, roomba>>

\* POST /api/robots/:id/command: the status of the response
RobotCommandStatus(id, token) ==
    IF token # APP_SECRET THEN 401
    ELSE IF ~HasRobot(robotsState, id) THEN 404
    ELSE IF ~esp32Connected THEN 503
    ELSE 200

\* POST /api/robots/:id/command
PostRobotCommand(id, token) ==
    /\ ev' = [op |-> "http", conn |-> NULL, route |-> "POST /api/robots/:id/command",
              token |-> token, id |-> id, status |-> RobotCommandStatus(id, token)]
    /\ sent' = IF RobotCommandStatus(id, token) = 200
               THEN Send(esp32Socket, [type |-> "ROBOT_FORWARD_COMMAND",
                                       robotId |-> id, command |-> "start"])
               ELSE <<>>
    /\ UNCHANGED <<conns, esp32Socket, esp32IrrigationSocket, shuttersState,
                   irrigationState, robotsState, lastAuth, firstMsg,
                   irrigationLog, roomba>>

\* --------------------------------------------------------------- inputs
\* :id of a request: a robot, a name that is no robot, an inherited name
RequestIds == {"roomba_j7", "unknown", "constructor"}

ESP32Frames ==
    {Malformed} \cup
    {Frame(m) : m \in AuthMsgs \cup StateMsgs \cup RobotStateMsgs
                      \cup {RobotResponse, Ack}}
IrrigationFrames ==
    {Malformed} \cup
    {Frame(m) : m \in AuthMsgs \cup IrrigationStateMsgs
                      \cup {IrrigationComplete}}
AppFrames ==
    {Malformed} \cup
    {Frame(m) : m \in CommandMsgs \cup IrrigationCommandMsgs \cup RobotCommandMsgs
                      \cup {Hello}}

Next ==
    \/ \E path \in Paths : Connection(path)
    \/ \E c \in ConnIds, data \in ESP32Frames : ESP32Message(c, data)
    \/ \E c \in ConnIds : ESP32Close(c)
    \/ \E c \in ConnIds, data \in IrrigationFrames : IrrigationMessage(c, data)
    \/ \E c \in ConnIds : IrrigationClose(c)
    \/ \E c \in ConnIds, data \in AppFrames : AppMessage(c, data)
    \/ \E c \in ConnIds : AppClose(c)
    \/ \E c \in ConnIds : OtherClose(c)

Spec == Init /\ [][Next]_vars

\* The HTTP routes read esp32Socket, that socket's readyState and robotsState
\* and write nothing; only the /esp32 handlers write what they read. The
\* routes are checked against those handlers.
NextHttp ==
    \/ Connection("/esp32")
    \/ \E c \in ConnIds, data \in ESP32Frames : ESP32Message(c, data)
    \/ \E c \in ConnIds : ESP32Close(c)
    \/ \E token \in Tokens : PostCommand(token)
    \/ \E id \in RequestIds, token \in Tokens : PostRobotCommand(id, token)

SpecHttp == Init /\ [][NextHttp]_vars

\* The shutters device and its controllers, with sends that may throw; a
\* device and two controllers need MaxFanout connections.
InitThrow == InitWith(MaxFanout)

NextThrow ==
    \/ \E path \in {"/esp32", "/app"} : Connection(path)
    \/ \E c \in ConnIds, data \in ESP32Frames : ESP32Message(c, data)
    \/ \E c \in ConnIds, data \in ESP32Frames, bad \in ConnIds :
          ESP32MessageSendThrows(c, data, bad)
    \/ \E c \in ConnIds : ESP32Close(c)
    \/ \E c \in ConnIds : AppClose(c)

SpecThrow == InitThrow /\ [][NextThrow]_vars

\* A RoombaController constructed with some configuration and driven by its
\* caller, its timer and its MQTT clients, next to the hub's /esp32 and /app
\* handlers.
InitRoomba ==
    /\ HubInit(MaxConn)
    /\ \E config \in SUBSET RobotIds : roomba = Constructed(config)

NextRoomba ==
    \/ startPolling
    \/ stopPolling
    \/ disconnect
    \/ \E t \in TimerIds : Tick(t)
    \/ \E r \in RobotIds, e \in ClientEvents, b \in Batteries : ClientEvent(r, e, b)
    \/ Connection("/app")
    \/ \E c \in ConnIds : AppClose(c)

SpecRoomba == InitRoomba /\ [][NextRoomba]_vars

\* =============================================================== claims
Reg(p) == IF p = "/esp32" THEN esp32Socket ELSE esp32IrrigationSocket
OpenControllers == {c \in ConnIds : conns[c].path = "/app" /\ IsOpen(c)}
SentTo(c) == {i \in 1..Len(sent) : sent[i].to = c}
AuthenticatedOpen(p) ==
    {c \in ConnIds : conns[c].path = p /\ conns[c].authenticated /\ IsOpen(c)}

\* the last step processed a frame of type t from an authenticated socket of path p
AuthenticatedStep(p, t) ==
    /\ ev.op = "message"
    /\ ev.path = p
    /\ ev.data.ok
    /\ conns[ev.conn].authenticated
    /\ ev.data.msg.type = t

\* the last step was the close event of the socket registered for its class
RegisteredClose(p) ==
    ev.op = "close" /\ ev.path = p /\ ev.wasRegistered

\* every open controller was sent exactly one message in the last step: m
OneEach(m) ==
    \A c \in OpenControllers :
        /\ Cardinality(SentTo(c)) = 1
        /\ \A i \in SentTo(c) : sent[i].msg = m

\* C1: in every reachable state at most one authenticated, open device
\* connection exists per class (the previous one is closed on a new
\* registration).
C1_OneOpenDevicePerClass ==
    \A p \in DevicePaths : Cardinality(AuthenticatedOpen(p)) <= 1

\* C2: a class's state is replaced only by a message of the connection that
\* is registered for the class at that moment; a superseded connection
\* cannot change it.
C2_OnlyRegisteredWrites ==
    /\ AuthenticatedStep("/esp32", "STATE") => ev.conn = esp32Socket
    /\ AuthenticatedStep("/esp32", "ROBOT_STATE") => ev.conn = esp32Socket
    /\ AuthenticatedStep("/esp32-irrigation", "IRRIGATION_STATE")
          => ev.conn = esp32IrrigationSocket

\* C3: unregister is compare-and-clear: the close event of a connection that
\* is not the registered one of a class leaves that class's registration and
\* its liveness unchanged.
C3_CompareAndClear ==
    [][ ev'.op = "close" =>
          /\ (ev'.conn # esp32Socket =>
                 esp32Socket' = esp32Socket /\ esp32Connected' = esp32Connected)
          /\ (ev'.conn # esp32IrrigationSocket =>
                 /\ esp32IrrigationSocket' = esp32IrrigationSocket
                 /\ irrigationConnected' = irrigationConnected) ]_vars

\* C3 witness: A authenticated, B superseded it, A's close event has fired and
\* B is still registered and open
C3_Witness ==
    /\ ev.op = "close"
    /\ ev.path \in DevicePaths
    /\ ev.wasAuthenticated
    /\ ~ev.wasRegistered
    /\ Reg(ev.path) \notin {NULL, ev.conn}
    /\ IsOpen(Reg(ev.path))

\* C4: per class there is one registration, and whenever it is held it is
\* held by the most recently authenticated connection of the class; that
\* connection holds it until its close event.
C4_LatestAuthHolds ==
    \A p \in DevicePaths :
        /\ Reg(p) # NULL => Reg(p) = lastAuth[p]
        /\ (lastAuth[p] # NULL /\ lastAuth[p] \in Clients) => Reg(p) = lastAuth[p]

\* C4 witness: two connections of one class have authenticated, and the later
\* one holds the registration
C4_Witness ==
    \E p \in DevicePaths : \E a \in ConnIds :
        /\ conns[a].path = p
        /\ conns[a].authenticated
        /\ Reg(p) \notin {NULL, a}
        /\ lastAuth[p] = Reg(p)

\* the state holds exactly the message's data and the fresh stamp
Committed(state, data, stamp) ==
    /\ DOMAIN state = (DOMAIN data) \cup {"lastUpdate"}
    /\ state["lastUpdate"] = stamp
    /\ \A k \in (DOMAIN data) \ {"lastUpdate"} : state[k] = data[k]

\* C5: in the step that processes a full-state message of an authenticated
\* device connection, the state becomes the message's data plus lastUpdate
\* and every open controller is sent exactly one update carrying that state.
C5_CommitThenBroadcast ==
    /\ AuthenticatedStep("/esp32", "STATE") =>
          /\ Committed(shuttersState, ev.data.msg.data, Timestamp)
          /\ OneEach([type |-> "STATE_UPDATE", data |-> shuttersState])
    /\ AuthenticatedStep("/esp32", "ROBOT_STATE") =>
          /\ Committed(robotsState, ev.data.msg.data, Scalar(Timestamp))
          /\ OneEach([type |-> "ROBOT_STATE_UPDATE", data |-> robotsState])
    /\ AuthenticatedStep("/esp32-irrigation", "IRRIGATION_STATE") =>
          /\ Committed(irrigationState, ev.data.msg.data, Timestamp)
          /\ OneEach([type |-> "IRRIGATION_STATE", data |-> irrigationState])

\* C5 witness: a STATE message was processed while a controller was open and
\* changed the shutters state
C5_Witness ==
    /\ AuthenticatedStep("/esp32", "STATE")
    /\ OpenControllers # {}
    /\ shuttersState.s1 = 50
    /\ Len(sent) >= 1

BroadcastTypes ==
    {"STATE_UPDATE", "ROBOT_STATE_UPDATE", "IRRIGATION_STATE", "ROBOT_RESPONSE",
     "IRRIGATION_COMMAND_COMPLETE"}

\* C6: a broadcast reaches every open controller and no connection opened on
\* /esp32 or /esp32-irrigation.
C6_NoBroadcastToDevices ==
    \A i \in 1..Len(sent) :
        sent[i].msg.type \in BroadcastTypes => conns[sent[i].to].path = "/app"

\* C7: for shutters and irrigation alike, the close of the registered
\* connection clears the class's liveness and sends every open controller
\* exactly one message.
C7_RegisteredCloseBroadcasts ==
    \A p \in DevicePaths :
        RegisteredClose(p) =>
            /\ Reg(p) = NULL
            /\ \A c \in OpenControllers : Cardinality(SentTo(c)) = 1

\* C8: when the registered bridge connection closes, every robot entry has
\* connected = false and every open controller is sent one
\* ROBOT_STATE_UPDATE carrying exactly that mapping.
C8_BridgeCloseMarksRobots ==
    RegisteredClose("/esp32") =>
        /\ \A k \in DOMAIN robotsState :
              robotsState[k].isObject => ~robotsState[k].connected
        /\ OneEach([type |-> "ROBOT_STATE_UPDATE", data |-> robotsState])

\* C8 witness: the bridge closed after robot telemetry had been received,
\* with a controller open
C8_Witness ==
    /\ RegisteredClose("/esp32")
    /\ "lastUpdate" \in DOMAIN robotsState
    /\ OpenControllers # {}

\* C9: a device connection whose first message was not a valid AUTH, and
\* which the hub therefore answered with AUTH_FAILED and closed, never
\* becomes the registered device, whatever it sends afterwards.
C9_RejectedNeverRegisters ==
    \A c \in ConnIds :
        (firstMsg[c] = "other" /\ conns[c].readyState = "CLOSING")
            => (esp32Socket # c /\ esp32IrrigationSocket # c)

\* C10: a malformed payload arriving as the first message of an
\* unauthenticated device connection closes that connection; on an
\* authenticated device connection or a controller connection it is
\* discarded and nothing is sent.
C10_MalformedFirstIsFatal ==
    (ev.op = "message" /\ ~ev.data.ok) =>
        /\ (ev.path \in DevicePaths /\ ev.first) => ~IsOpen(ev.conn)
        /\ sent = <<>>

\* C11: a valid AUTH as the first message of a device connection registers
\* that connection for its class and sends it AUTH_OK, then REQUEST_STATE,
\* and nothing else is sent in that step.
C11_AuthRegistersAndReplies ==
    \A p \in DevicePaths :
        (/\ ev.op = "message"
         /\ ev.path = p
         /\ ev.first
         /\ ev.data.ok
         /\ ValidAuth(ev.data.msg,
                      IF p = "/esp32" THEN ESP32_SECRET ELSE ESP32_IRRIGATION_SECRET))
        => /\ Reg(p) = ev.conn
           /\ conns[ev.conn].authenticated
           /\ sent = <<[to |-> ev.conn, msg |-> AuthOk],
                       [to |-> ev.conn, msg |-> RequestState]>>

\* C11 witness: an irrigation device has just authenticated with its first
\* message while another socket was open
C11_Witness ==
    /\ ev.op = "message"
    /\ ev.path = "/esp32-irrigation"
    /\ ev.first
    /\ esp32IrrigationSocket = ev.conn
    /\ Len(sent) = 2
    /\ \E d \in ConnIds : d # ev.conn /\ IsOpen(d)

\* C12: the step that accepts a controller on /app sends it one message, a
\* STATE_UPDATE carrying the shutters state committed at that moment, and
\* nothing to anyone else; nothing was sent to that socket before.
C12_SnapshotOnConnect ==
    (ev.op = "connection" /\ ev.path = "/app") =>
        sent = <<[to |-> ev.conn,
                  msg |-> [type |-> "STATE_UPDATE", data |-> shuttersState]]>>

\* C12 witness: a controller connected after a device had changed the state
C12_Witness ==
    /\ ev.op = "connection"
    /\ ev.path = "/app"
    /\ shuttersState.s1 = 50
    /\ Len(sent) = 1

\* the last step handled a parsed controller frame of type t
ControllerStep(t) ==
    /\ ev.op = "message"
    /\ ev.path = "/app"
    /\ ev.data.ok
    /\ ev.data.msg.type = t

\* class p has no registered device socket that is open
NoLiveDevice(p) == Reg(p) = NULL \/ conns[Reg(p)].readyState # "OPEN"

\* C13: a controller command whose token is missing or wrong sends nothing to
\* anyone and leaves the controller's socket open, whatever that controller
\* sent before.
C13_TokenOnEveryMessage ==
    \A t \in CommandTypes :
        (ControllerStep(t) /\ ev.data.msg.token # APP_SECRET)
        => /\ sent = <<>>
           /\ IsOpen(ev.conn)

\* C13 witness: a wrong token right after a valid command of the same
\* controller, while the addressed device is connected
C13_Witness ==
    /\ ControllerStep("IRRIGATION_COMMAND")
    /\ ev.data.msg.token = WRONG_SECRET
    /\ ev.afterValid
    /\ ~NoLiveDevice("/esp32-irrigation")

\* C14: a valid-token IRRIGATION_COMMAND or ROBOT_COMMAND while its class has
\* no registered open device yields exactly one failure response, to the
\* issuing controller, and nothing else.
C14_ExplicitFailure ==
    /\ (/\ ControllerStep("IRRIGATION_COMMAND")
        /\ ev.data.msg.token = APP_SECRET
        /\ NoLiveDevice("/esp32-irrigation"))
       => sent = <<[to |-> ev.conn,
                    msg |-> [type |-> "IRRIGATION_RESPONSE", success |-> FALSE,
                             error |-> "Irrigation ESP32 not connected"]]>>
    /\ (/\ ControllerStep("ROBOT_COMMAND")
        /\ ev.data.msg.token = APP_SECRET
        /\ NoLiveDevice("/esp32"))
       => sent = <<[to |-> ev.conn,
                    msg |-> [type |-> "ROBOT_RESPONSE", success |-> FALSE,
                             error |-> "ESP32 Roomba bridge not connected"]]>>

\* C14 witness: an irrigation command arrives while the registered irrigation
\* socket is no longer open
C14_Witness ==
    /\ ControllerStep("IRRIGATION_COMMAND")
    /\ ev.data.msg.token = APP_SECRET
    /\ esp32IrrigationSocket # NULL
    /\ ~IsOpen(esp32IrrigationSocket)
    /\ Len(sent) = 1

\* C15: a valid-token COMMAND on the controller socket while no shutters device
\* is registered and open sends nothing at all.
C15_SilentShuttersDrop ==
    (/\ ControllerStep("COMMAND")
     /\ ev.data.msg.token = APP_SECRET
     /\ NoLiveDevice("/esp32"))
    => sent = <<>>

\* C15 witness: the command is dropped while the irrigation device is live
\* and a second socket is open
C15_Witness ==
    /\ ControllerStep("COMMAND")
    /\ ev.data.msg.token = APP_SECRET
    /\ esp32Socket = NULL
    /\ sent = <<>>
    /\ \E d \in ConnIds : d # ev.conn /\ IsOpen(d)

\* the last step answered a request on route r
HttpStep(r) == ev.op = "http" /\ ev.route = r

\* C16: POST /api/command answers 401 on an invalid token and sends nothing,
\* 503 on a valid token without a registered open shutters device, and
\* otherwise sends exactly one COMMAND to the registered shutters device; it
\* never changes the shutters state or either registration.
C16_PostCommandOutcome ==
    [][(ev'.op = "http" /\ ev'.route = "POST /api/command") =>
         /\ UNCHANGED <<shuttersState, esp32Socket, esp32IrrigationSocket, conns,
                   irrigationLog, roomba>>
         /\ IF ev'.token # APP_SECRET
            THEN ev'.status = 401 /\ sent' = <<>>
            ELSE IF NoLiveDevice("/esp32")
            THEN ev'.status = 503 /\ sent' = <<>>
            ELSE /\ ev'.status = 200
                 /\ sent' = <<[to |-> esp32Socket,
                               msg |-> [type |-> "COMMAND", action |-> "OPEN"]]>>
      ]_vars

\* C16 witness: an invalid token was answered 401 while the shutters device
\* was live
C16_Witness ==
    /\ HttpStep("POST /api/command")
    /\ ev.token = WRONG_SECRET
    /\ ev.status = 401
    /\ ~NoLiveDevice("/esp32")

\* C17: POST /api/robots/:id/command with a valid token and an id that is no
\* key of the current robot state answers 404.
C17_UnknownRobotIs404 ==
    (/\ HttpStep("POST /api/robots/:id/command")
     /\ ev.token = APP_SECRET
     /\ ev.id \notin DOMAIN robotsState)
    => ev.status = 404

\* C18: every false-to-true transition of the irrigation active flag logs one
\* START event to the history sink; so while the flag is true, which it is not
\* initially, the sink holds a START row.
C18_StartLogged ==
    irrigationState.active =>
        \E i \in 1..Len(irrigationLog) : irrigationLog[i].action = "START"

\* C19: when the send to one open controller throws during a broadcast,
\* every other open controller is still sent the broadcast in that step.
C19_OthersStillServed ==
    (ev.op = "message" /\ "threw" \in DOMAIN ev) =>
        \A d \in OpenControllers \ {ev.threw} : SentTo(d) # {}

\* this step processes a frame of type t from an authenticated socket of path p
WriteStep(p, t) ==
    /\ ev'.op = "message"
    /\ ev'.path = p
    /\ ev'.data.ok
    /\ ev'.data.msg.type = t
    /\ conns'[ev'.conn].authenticated

\* the updates of type t sent to connection c in the sequence msgs
UpdatesTo(c, t, msgs) ==
    SelectSeq(msgs, LAMBDA s : s.to = c /\ s.msg.type = t)

\* the most recent update of type t in msgs to every open controller of the
\* connection table cs carries state
AllHold(cs, t, msgs, state) ==
    \A c \in DOMAIN cs :
        (cs[c].path = "/app" /\ cs[c].readyState = "OPEN") =>
            LET u == UpdatesTo(c, t, msgs)
            IN  Len(u) >= 1 /\ u[Len(u)].msg.data = state

\* C20: a step that changes the committed state of a class, or that processes
\* a full-state message of an authenticated device, leaves that message's
\* data committed and sends every open controller an update whose most recent
\* one carries the newly committed state; a step that opens a controller sends
\* it the committed shutters state. So no open controller holds a state older
\* than the committed one.
C20_NoStaleController ==
    [][/\ (shuttersState' # shuttersState \/ WriteStep("/esp32", "STATE"))
          => /\ AllHold(conns', "STATE_UPDATE", sent', shuttersState')
             /\ WriteStep("/esp32", "STATE")
                => Committed(shuttersState', ev'.data.msg.data, Timestamp)
       /\ (robotsState' # robotsState \/ WriteStep("/esp32", "ROBOT_STATE"))
          => AllHold(conns', "ROBOT_STATE_UPDATE", sent', robotsState')
       /\ (irrigationState' # irrigationState
           \/ WriteStep("/esp32-irrigation", "IRRIGATION_STATE"))
          => AllHold(conns', "IRRIGATION_STATE", sent', irrigationState')
       /\ conns' # conns
          => \A c \in ConnIds :
               (conns[c].readyState = "NONE" /\ conns'[c].path = "/app")
               => LET u == UpdatesTo(c, "STATE_UPDATE", sent')
                  IN  Len(u) = 1 /\ u[1].msg.data = shuttersState'
      ]_vars

\* C20 witness: a robot state replacement has just been broadcast to an open
\* controller
C20_Witness ==
    /\ AuthenticatedStep("/esp32", "ROBOT_STATE")
    /\ robotsState["roomba_j7"].connected
    /\ OpenControllers # {}
    /\ \A c \in OpenControllers : SentTo(c) # {}

\* the last step was call c of the RoombaController
RoombaStep(c) == ev.op = "roomba" /\ ev.call = c

\* C21: after a poll tick the hub's robot state holds the polled statuses and
\* every open controller has been sent a ROBOT_STATE_UPDATE.
C21_PollReachesHub ==
    RoombaStep("tick") =>
        /\ \A r \in DOMAIN ev.statuses :
              /\ robotsState[r].connected = ev.statuses[r].connected
              /\ robotsState[r].battery = ev.statuses[r].battery
        /\ \A c \in OpenControllers :
              \E i \in SentTo(c) : sent[i].msg.type = "ROBOT_STATE_UPDATE"

\* C25: at most one polling timer is active, and it is the one held in
\* pollingInterval; none is active after stopPolling or disconnect. A tick is
\* one synchronous step, so no tick starts inside another.
C25_OnePollingTimer ==
    /\ Cardinality(roomba.timers) <= 1
    /\ roomba.timers = {roomba.pollingInterval} \ {NULL}
    /\ (RoombaStep("stopPolling") \/ RoombaStep("disconnect"))
       => (roomba.timers = {} /\ roomba.pollingInterval = NULL)

\* C25 witness: startPolling was called while a timer was running, and one
\* timer runs
C25_Witness ==
    /\ RoombaStep("startPolling")
    /\ ev.restarted
    /\ Cardinality(roomba.timers) = 1

\* this step is an event (connection, message or close) of a socket of path p
SocketStep(p) ==
    /\ ev'.op \in {"connection", "message", "close"}
    /\ ev'.path = p

\* C22: no message on a controller connection, whatever its type and token,
\* changes a state, a registration or a socket; it can only cause sends.
C22_ControllersWriteNothing ==
    [][(ev'.op = "message" /\ ev'.path = "/app")
       => UNCHANGED <<shuttersState, irrigationState, robotsState,
                      esp32Socket, esp32IrrigationSocket, conns>>]_vars

\* C22 witness: a valid command of a controller was forwarded to a device
C22_Witness ==
    /\ ControllerStep("COMMAND")
    /\ ev.data.msg.token = APP_SECRET
    /\ Len(sent) = 1
    /\ shuttersState.lastUpdate = NO_STAMP

\* C23: no event of an irrigation device connection changes the shutters
\* registration, shuttersState or robotsState, and no event of a
\* shutters/bridge device connection changes the irrigation registration or
\* irrigationState.
C23_ClassesIndependent ==
    [][/\ SocketStep("/esp32-irrigation")
          => UNCHANGED <<esp32Socket, shuttersState, robotsState>>
       /\ SocketStep("/esp32")
          => UNCHANGED <<esp32IrrigationSocket, irrigationState>>]_vars

\* C23 witness: the registered irrigation device closed while the bridge was
\* registered and showed a robot as connected
C23_Witness ==
    /\ RegisteredClose("/esp32-irrigation")
    /\ esp32Socket # NULL
    /\ robotsState["roomba_j7"].connected

\* the messages sent to connection c in msgs, in order
MessagesTo(c, msgs) ==
    LET mine == SelectSeq(msgs, LAMBDA s : s.to = c)
    IN  [i \in 1..Len(mine) |-> mine[i].msg]

\* C24: on an authenticated device connection an ACK changes nothing and
\* sends nothing; a ROBOT_RESPONSE or IRRIGATION_COMMAND_COMPLETE is sent as
\* received, once, to every open controller, and changes no state and no
\* registration.
C24_AckAndForward ==
    [][/\ WriteStep("/esp32", "ACK")
          => /\ sent' = <<>>
             /\ UNCHANGED <<shuttersState, irrigationState, robotsState,
                            esp32Socket, esp32IrrigationSocket>>
       /\ (\/ WriteStep("/esp32", "ROBOT_RESPONSE")
           \/ WriteStep("/esp32-irrigation", "IRRIGATION_COMMAND_COMPLETE"))
          => /\ \A c \in ConnIds :
                  (conns[c].path = "/app" /\ IsOpen(c))
                  => MessagesTo(c, sent') = <<ev'.data.msg>>
             /\ UNCHANGED <<shuttersState, irrigationState, robotsState,
                            esp32Socket, esp32IrrigationSocket>>]_vars

\* C24 witness: an irrigation completion was forwarded to an open controller
C24_Witness ==
    /\ AuthenticatedStep("/esp32-irrigation", "IRRIGATION_COMMAND_COMPLETE")
    /\ OpenControllers # {}
    /\ \A c \in OpenControllers : SentTo(c) # {}

\* C26: whenever no bridge connection is registered, every robot entry of
\* robotsState has connected = false.
C26_NoBridgeNoRobots ==
    esp32Socket = NULL =>
        \A r \in DOMAIN robotsState :
            robotsState[r].isObject => ~robotsState[r].connected

\* C27: a registered device reference points to a connection opened on the
\* class's path, authenticated, and whose close handler has not run.
C27_RegisteredIsLive ==
    \A p \in DevicePaths :
        Reg(p) # NULL =>
            /\ conns[Reg(p)].path = p
            /\ conns[Reg(p)].authenticated
            /\ conns[Reg(p)].readyState \in {"OPEN", "CLOSING"}

\* C27 witness: the registered irrigation device has just closed while a
\* shutters device stays registered and open
C27_Witness ==
    /\ RegisteredClose("/esp32-irrigation")
    /\ esp32IrrigationSocket = NULL
    /\ esp32Socket # NULL
    /\ IsOpen(esp32Socket)

\* C28: a connection takes a registration only in the step that authenticates
\* it: a connection that is already authenticated, superseded or not, never
\* becomes the registered device by a later message.
C28_RegisteredOnce ==
    [][\A c \in ConnIds :
         (\/ (esp32Socket' = c /\ esp32Socket # c)
          \/ (esp32IrrigationSocket' = c /\ esp32IrrigationSocket # c))
         => (~conns[c].authenticated /\ conns'[c].authenticated)]_vars

\* C28 witness: an authenticated, superseded connection has just sent a valid
\* AUTH again and the newer connection still holds the registration
C28_Witness ==
    /\ ev.op = "message"
    /\ ev.path = "/esp32"
    /\ ~ev.first
    /\ ev.data.ok
    /\ ValidAuth(ev.data.msg, ESP32_SECRET)
    /\ firstMsg[ev.conn] = "auth"
    /\ esp32Socket \notin {NULL, ev.conn}
    /\ sent = <<>>

\* the positions of sent whose message has type t
OfType(t) == {i \in 1..Len(sent) : sent[i].msg.type = t}

\* the last step sent the issuing controller a response of type t with
\* success: true
SuccessTo(t) ==
    \E i \in OfType(t) : sent[i].to = ev.conn /\ sent[i].msg.success

\* C29: for a valid-token IRRIGATION_COMMAND or ROBOT_COMMAND the issuing
\* controller is sent success: true exactly when one command message was sent
\* in that step, to the connection registered for the class; a command
\* message never goes anywhere else.
C29_SuccessIffDelivered ==
    /\ (ControllerStep("IRRIGATION_COMMAND") /\ ev.data.msg.token = APP_SECRET)
       => /\ SuccessTo("IRRIGATION_RESPONSE")
             <=> (/\ Cardinality(OfType("IRRIGATION_COMMAND")) = 1
                  /\ esp32IrrigationSocket # NULL)
          /\ \A i \in OfType("IRRIGATION_COMMAND") :
                sent[i].to = esp32IrrigationSocket
    /\ (ControllerStep("ROBOT_COMMAND") /\ ev.data.msg.token = APP_SECRET)
       => /\ SuccessTo("ROBOT_RESPONSE")
             <=> (/\ Cardinality(OfType("ROBOT_FORWARD_COMMAND")) = 1
                  /\ esp32Socket # NULL)
          /\ \A i \in OfType("ROBOT_FORWARD_COMMAND") : sent[i].to = esp32Socket

\* C29 witness: a robot command was forwarded to the registered bridge and
\* the issuing controller was answered with success: true
C29_Witness ==
    /\ ControllerStep("ROBOT_COMMAND")
    /\ ev.data.msg.token = APP_SECRET
    /\ SuccessTo("ROBOT_RESPONSE")
    /\ Len(sent) = 2

\* C30: no message the hub sends carries the token a controller presented.
C30_TokenStaysInHub ==
    \A i \in 1..Len(sent) : "token" \notin DOMAIN sent[i].msg

====
